---- MODULE Spec2Model ----
(***************************************************************************)
(* A model of mpm::eventbus: the Left-Right container (basic_leftright,    *)
(* its two reader registries), the subscriber table it protects, the       *)
(* dispatch-chain resolution and basic_eventbus::publish / subscribe /     *)
(* unsubscribe.                                                            *)
(*                                                                         *)
(* Every atomic load, store and read-modify-write of the code is one       *)
(* action, taken in program order (sequentially consistent interleaving).  *)
(* The application of a modify functor to one copy is one action; a reader *)
(* walks its dispatch chain one chain element per action.                  *)
(***************************************************************************)
EXTENDS Integers, Sequences, FiniteSets, TLC

(***************************************************************************)
(* Bounds of the model.                                                    *)
(***************************************************************************)
\* total number of subscribe calls in a behaviour
MaxSubs == 2
\* total number of unsubscribe calls in a behaviour
MaxUnsubs == 2
\* total number of publish calls in a behaviour
MaxPubs == 2
\* number of heap addresses std::allocate_shared can hand out
MaxAddr == 2
\* N of distributed_atomic_reader_registry<N>
NumShards == 2

Readers == {"r1", "r2"}
Writers == {"w1", "w2"}

\* Hasher()(std::this_thread::get_id()) of each thread that reads
ThreadHash(t) == CASE t = "r1" -> 0 [] t = "r2" -> 1 [] t = "w1" -> 2 [] OTHER -> 3

(***************************************************************************)
(* The event types of the tests and of the README, with the way each is    *)
(* declared.                                                               *)
(*   polymorphic_event: struct T : mpm::polymorphic_event<T, Base>         *)
(*   inherits:          struct T : Base          (ordinary inheritance)    *)
(*   plain:             struct T                 (no base class)           *)
(*   declares:          struct T : Base { using dispatch_as = list; }      *)
(* reordered_event and foreign_event are event types of a user of the      *)
(* library that supply their own dispatch_as typedef: the first names      *)
(* itself after its base, typelist<base_event, typelist<reordered_event>>, *)
(* the second names a class it does not derive from,                       *)
(* typelist<foreign_event, typelist<my_object, typelist<base_event>>>.     *)
(***************************************************************************)
EventRoot == "detail::event"

TypeDecl(T) ==
    CASE T = "base_event" -> [kind |-> "polymorphic_event", base |-> EventRoot]
      [] T = "derived_event" -> [kind |-> "polymorphic_event", base |-> "base_event"]
      [] T = "very_derived_event" -> [kind |-> "inherits", base |-> "derived_event"]
      [] T = "non_polymorphic_event" -> [kind |-> "plain", base |-> "none"]
      [] T = "my_object" -> [kind |-> "plain", base |-> "none"]
      [] T = "my_non_polymorphic_event" -> [kind |-> "inherits", base |-> "my_object"]
      [] T = "reordered_event" ->
             [kind |-> "declares", base |-> "base_event",
              list |-> << "base_event", "reordered_event" >>]
      [] T = "foreign_event" ->
             [kind |-> "declares", base |-> "base_event",
              list |-> << "foreign_event", "my_object", "base_event" >>]
      [] OTHER -> [kind |-> "plain", base |-> "none"]

PolymorphicTypes == {"base_event", "derived_event", "very_derived_event"}
PlainTypes == {"non_polymorphic_event", "my_object", "my_non_polymorphic_event"}
EventTypes == PolymorphicTypes \cup PlainTypes

\* the event types that supply a dispatch_as typedef of their own
DeclaringTypes == {"reordered_event", "foreign_event"}

\* detail::adapted_event<Base>, as a type name
adapted_event(B) == "adapted_event<" \o B \o ">"

AdaptedTypes == {adapted_event(B) : B \in PlainTypes}

\* the Base of an adapted_event<Base>
AdaptedBase(A) == CHOOSE B \in PlainTypes : adapted_event(B) = A

\* std::is_base_of<detail::event, T>
RECURSIVE is_base_of_event(_)
is_base_of_event(T) ==
    IF T = EventRoot \/ T \in AdaptedTypes THEN TRUE
    ELSE LET d == TypeDecl(T) IN
         IF d.kind = "plain" THEN FALSE ELSE is_base_of_event(d.base)

\* The member typedef T::dispatch_as found by name lookup, as the sequence of
\* the typelist's elements (null_t is the empty sequence).
RECURSIVE dispatch_as(_)
\* polymorphic_event whose dispatch_as names T alone, without Base's list
dispatch_as_self_only(T) ==
    IF T = EventRoot THEN << >>
    ELSE IF T \in AdaptedTypes THEN << AdaptedBase(T) >>
    ELSE IF TypeDecl(T).kind = "polymorphic_event" THEN << T >>
    ELSE IF TypeDecl(T).kind = "inherits"
         THEN IF TypeDecl(TypeDecl(T).base).kind = "polymorphic_event"
              THEN << TypeDecl(T).base >> ELSE << >>
    ELSE << >>

dispatch_as(T) ==
    IF T = EventRoot THEN << >>
    ELSE IF T \in AdaptedTypes THEN << AdaptedBase(T) >>
    ELSE LET d == TypeDecl(T) IN
         IF d.kind = "polymorphic_event" THEN << T >> \o dispatch_as(d.base)
         ELSE IF d.kind = "inherits" THEN dispatch_as(d.base)
         ELSE IF d.kind = "declares" THEN d.list
         ELSE << >>

\* a dispatch_typelist that puts a missing E last instead of first
dispatch_typelist_appending(E) ==
    IF dispatch_as(E) # << >> /\ Head(dispatch_as(E)) = E
    THEN dispatch_as(E)
    ELSE dispatch_as(E) \o << E >>

\* detail::dispatch_typelist<E>::type
dispatch_typelist(E) ==
    IF dispatch_as(E) # << >> /\ Head(dispatch_as(E)) = E
    THEN dispatch_as(E)
    ELSE << E >> \o dispatch_as(E)

\* The public base classes of a type, itself included (what a dynamic_cast
\* of an object of that dynamic type can reach).
RECURSIVE BasesOf(_)
BasesOf(T) ==
    IF T = EventRoot THEN {T}
    ELSE IF T \in AdaptedTypes THEN {T, EventRoot} \cup BasesOf(AdaptedBase(T))
    ELSE IF TypeDecl(T).kind = "plain" THEN {T}
    ELSE {T} \cup BasesOf(TypeDecl(T).base)

\* The static type basic_eventbus::publish hands to observe: the event
\* itself when it derives from detail::event, else adapted_event<Event>.
PublishedAs(E) == IF is_base_of_event(E) THEN E ELSE adapted_event(E)

(***************************************************************************)
(* The subscriber table (subs_multimap).  Only equal_range, emplace and    *)
(* erase are used on it, so a table is the sequence of its records, and    *)
(* the records of one key are met in the order they have in the sequence.  *)
(* A record is a type_erased_subscriber under its key:                     *)
(*   ti  the key, std::type_index(typeid(Event))                           *)
(*   id  type_erased_subscriber::id(), the address of the shared model     *)
(*   h   the handler the model<E, H> holds (one per subscribe call)        *)
(***************************************************************************)
NoSubscriber == [ti |-> "none", id |-> 0, h |-> 0]

\* detail::cookie::cookie()
default_cookie == [id |-> 0, ti |-> "nullptr_t"]

\* a lookup that yields every record, whatever its key
equal_range_all(subs, ti) == subs

\* subs.equal_range(ti)
equal_range(subs, ti) == SelectSeq(subs, LAMBDA rec : rec.ti = ti)

\* an emplace that always puts the new element last
emplace_last(subs, tesub, order) == Append(subs, tesub)

\* subs.emplace(idx, tesub): std::unordered_multimap leaves the place of a
\* new element among the elements of its key to the standard library
\* (libstdc++ puts it first, libc++ last).
emplace(subs, tesub, order) ==
    IF order = "last" THEN Append(subs, tesub) ELSE << tesub >> \o subs

\* subs.erase(pos)
erase(subs, pos) ==
    [i \in 1..(Len(subs) - 1) |-> IF i < pos THEN subs[i] ELSE subs[i + 1]]

\* The functor of basic_eventbus::subscribe
subscribe_f(subs, tesub, order) == emplace(subs, tesub, order)

\* unsubscribe whose scan never finds the record
unsubscribe_f_no_match(subs, c) == subs

\* unsubscribe erasing the first record of the bucket, whatever its id
unsubscribe_f_any_id(subs, c) ==
    LET hits == {i \in 1..Len(subs) : subs[i].ti = c.ti}
    IN  IF hits = {} THEN subs
        ELSE erase(subs, CHOOSE i \in hits : \A j \in hits : i <= j)

\* The functor of basic_eventbus::unsubscribe: erase the first record of
\* the bucket of c.ti whose id() is c.id.
unsubscribe_f(subs, c) ==
    LET hits == {i \in 1..Len(subs) : subs[i].ti = c.ti /\ subs[i].id = c.id}
    IN  IF hits = {} THEN subs
        ELSE erase(subs, CHOOSE i \in hits : \A j \in hits : i <= j)

\* a deliver that calls the handler only for objects of exactly its type
model_deliver_exact(rec, obj) == rec.ti = obj

\* type_erased_subscriber::model<E, H>::deliver for an event object whose
\* dynamic type is obj: the base template (E derives from detail::event)
\* static_casts and calls; the specialization calls iff the dynamic_cast
\* succeeds.
model_deliver(rec, obj) ==
    IF is_base_of_event(rec.ti) THEN TRUE ELSE rec.ti \in BasesOf(obj)

\* detail::deliver::operator()<T>(): the handlers invoked, in order
deliver(subs, T, obj) ==
    LET handlers == equal_range(subs, T)
        invoked == SelectSeq(handlers, LAMBDA rec : model_deliver(rec, obj))
    IN  [i \in 1..Len(invoked) |-> invoked[i].h]

\* for_each_type<types>(deliver(event, subs)) from element pos on
RECURSIVE for_each_type(_, _, _, _)
for_each_type(subs, types, pos, obj) ==
    IF pos > Len(types) THEN << >>
    ELSE deliver(subs, types[pos], obj) \o for_each_type(subs, types, pos + 1, obj)

(***************************************************************************)
(* State.                                                                  *)
(***************************************************************************)
VARIABLES
    m_left,              \* basic_leftright::m_left
    m_right,             \* basic_leftright::m_right
    m_leftright,         \* basic_leftright::m_leftright
    m_registry_index,    \* basic_leftright::m_registry_index
    m_reader_registries, \* basic_leftright::m_reader_registries, per counter
    m_writemutex,        \* basic_leftright::m_writemutex: its owner
    registry,            \* the ReaderRegistry the container is built with
    bucket_order,        \* where the standard library puts an equal key
    callers,             \* the threads that make calls
    types,               \* the event types the callers use
    sequential,          \* TRUE: the callers make one call at a time
    endless,             \* TRUE: publish may be called any number of times
    nested,              \* the call handlers make: "none", "publish", "modify"
    rd,                  \* per reader: the publish call it is in
    wr,                  \* per writer: the subscribe/unsubscribe call it is in
    cookieOf,            \* the cookie of each subscribe call so far
    returned,            \* handlers whose subscribe has returned
    live,                \* handlers subscribed and not unsubscribed
    touched,             \* handlers whose cookie an unsubscribe call was given
    released,            \* handlers whose own cookie an unsubscribe call was given
    npub,                \* publish calls so far
    nunsub,              \* unsubscribe calls so far
    ss,                  \* the scoped_subscription objects and their thread
    order                \* the modify calls in mutex order, and what observes saw

shared == << m_left, m_right, m_leftright, m_registry_index,
             m_reader_registries, m_writemutex >>
build == << registry, bucket_order, callers, types, sequential, endless,
            nested >>
calls == << cookieOf, returned, live, touched, released, npub, nunsub >>
ghost == << calls, order >>
vars == << shared, build, rd, wr, ghost, ss >>

Addrs == 1..MaxAddr
Shards == 0..(NumShards - 1)

IdleReader ==
    [pc |-> "idle", E |-> "none", idx |-> 0, side |-> "none", pos |-> 0,
     log |-> << >>, must |-> {}, quiet |-> FALSE,
     view |-> << >>]

\* the scoped_subscription objects there can be
Holders == {"a", "b"}

\* A scoped_subscription<Event> that is not constructed:
\*   state    "none", "alive" or "gone" (destroyed)
\*   event_type  its template argument Event
\*   m_ebus   TRUE for &ebus, FALSE for nullptr
\*   m_cookie its cookie
\*   from     the subscribe call m_cookie is from (0: none)
\*   empty    it was default-constructed or moved from, and not assigned to
\*   taken    assign or move-assignment has given it its subscription
NoHolder ==
    [state |-> "none", event_type |-> "none", m_ebus |-> FALSE,
     m_cookie |-> default_cookie, from |-> 0, empty |-> FALSE, taken |-> FALSE]

\* no member function of a scoped_subscription is running:
\*   obj      the objects
\*   pc       the statement the running member function is at
\*   x, y     the object it runs on and its argument
\*   dropped  the subscriptions managed by objects at their destruction
\*   let_go   the subscriptions managed by objects when they were assigned to
\*   owned    the subscribe calls made by objects (m_cookie is private)
IdleHolders ==
    [obj |-> [x \in Holders |-> NoHolder], pc |-> "idle", x |-> "none",
     y |-> "none", dropped |-> {}, let_go |-> {}, owned |-> {}]

IdleWriter ==
    [pc |-> "idle", op |-> "none", tesub |-> NoSubscriber, c |-> default_cookie,
     from |-> 0, first |-> "none", current |-> 0, scan |-> 0,
     before |-> << >>, busy |-> FALSE, pending |-> {}, steps |-> << >>]

\* The record of the order of the modify calls, kept when `on`:
\*   tables   the table after each modify call, in the order the calls took
\*            m_writemutex, from the empty table on
\*   passed   per copy, the number of modify calls that are through with it
\*   start    per reader, `floor` as its observe was entered
\*   seen     per reader, `passed` of the copy its observe picked
\*   floor    the greatest `seen` of the observes that have returned
NoOrder ==
    [on |-> FALSE, tables |-> << << >> >>,
     passed |-> [side \in {"left", "right"} |-> 0],
     start |-> [r \in Readers |-> 0], seen |-> [r \in Readers |-> 0],
     floor |-> 0]

\* the record is kept only where it is on
Track(new) == order' = IF order.on THEN new ELSE order

\* the copy a side names
Copy(side) == IF side = "left" THEN m_left ELSE m_right
Other(side) == IF side = "left" THEN "right" ELSE "left"
\* the side the enum value of m_leftright makes readers read
SideOf(lr) == IF lr = "read_left" THEN "left" ELSE "right"
ReadOf(side) == IF side = "left" THEN "read_left" ELSE "read_right"

\* The thread a call runs on.  A handler that calls the bus makes its call
\* on the thread of the publish that invoked it: when handlers publish, the
\* calls of r2 are the calls the handlers invoked by r1 make, and when
\* handlers subscribe or unsubscribe, the calls of w2 are.
ThreadOf(t) ==
    IF (nested = "publish" /\ t = "r2") \/ (nested = "modify" /\ t = "w2")
    THEN "r1" ELSE t

\* the counter of a registry a thread arrives at and departs from:
\* atomic_reader_registry has one, distributed_atomic_reader_registry<N>
\* takes Hasher()(get_id()) % N
ShardOf(t) ==
    IF registry = "atomic_reader_registry" THEN 0
    ELSE ThreadHash(ThreadOf(t)) % NumShards

\* the number of counters empty() reads
CountersOf(reg) == IF reg = "atomic_reader_registry" THEN 1 ELSE NumShards

\* addresses of models some shared_ptr still owns
AddrsInUse ==
    {m_left[i].id : i \in 1..Len(m_left)}
      \cup {m_right[i].id : i \in 1..Len(m_right)}
      \cup {wr[w].tesub.id : w \in Writers}

\* addresses handed out so far
AddrsUsed == {cookieOf[h].id : h \in 1..Len(cookieOf)}

\* an allocator that may hand out the address of a live model
allocate_shared_any == Addrs

\* std::allocate_shared<model<E, H>>: any address no live model has.  The
\* addresses never handed out are interchangeable, so the least stands for
\* them.
allocate_shared ==
    LET free == Addrs \ AddrsInUse
        fresh == free \ AddrsUsed
    IN  (free \cap AddrsUsed)
          \cup (IF fresh = {} THEN {} ELSE {CHOOSE a \in fresh : \A b \in fresh : a <= b})

\* the observes between their arrive and their depart on registry reg
Inside(reg) ==
    {r \in Readers : rd[r].idx = reg
                       /\ rd[r].pc \in {"load_leftright", "deliver", "depart"}}

\* the registry whose empty() writer w is in the middle of: some counters
\* are read and the others are not yet (-1: none)
Scanned(w) ==
    IF wr[w].scan = 0 THEN -1
    ELSE IF wr[w].pc = "wait_next" THEN (wr[w].current + 1) % 2
    ELSE IF wr[w].pc = "wait_current" THEN wr[w].current
    ELSE -1

AllIdle ==
    /\ \A r \in Readers : rd[r].pc = "idle"
    /\ \A w \in Writers : wr[w].pc = "idle"
    /\ ss.pc = "idle"

NoWriter == \A w \in Writers : wr[w].pc = "idle"

\* a handler invoked by the publish of reader r is running: for_each_type
\* has called a handler and observe has not left its read indication
InHandler(r) == rd[r].pc \in {"deliver", "depart"} /\ rd[r].log # << >>

\* the calls the handlers of reader r made have returned
HandlersReturned(r) ==
    /\ \A q \in Readers \ {r} : ThreadOf(q) = r => rd[q].pc = "idle"
    /\ \A w \in Writers : ThreadOf(w) = r => wr[w].pc = "idle"

\* t may start a call: a thread of its own whenever it is a caller, a
\* handler's call while the handler runs
MayCall(t) ==
    /\ t \in callers
    /\ sequential => AllIdle
    /\ ThreadOf(t) # t => InHandler(ThreadOf(t))

InitCalls ==
    /\ m_left = << >>
    /\ m_right = << >>
    /\ m_leftright = "read_left"
    /\ m_registry_index = 0
    /\ m_reader_registries = [i \in {0, 1} |-> [k \in Shards |-> 0]]
    /\ m_writemutex = "unlocked"
    /\ rd = [r \in Readers |-> IdleReader]
    /\ wr = [w \in Writers |-> IdleWriter]
    /\ cookieOf = << >>
    /\ returned = {}
    /\ live = {}
    /\ touched = {}
    /\ released = {}
    /\ npub = 0
    /\ nunsub = 0
    /\ ss = IdleHolders

\* the state after construction, the order of the modify calls not recorded
InitShared == InitCalls /\ order = NoOrder

\* basic_eventbus, whose table is a leftright<subs_multimap>, that is a
\* basic_leftright over atomic_reader_registry: one publishing thread and
\* two subscribing/unsubscribing threads, all running concurrently.
Init ==
    /\ InitShared
    /\ registry = "atomic_reader_registry"
    /\ bucket_order \in {"first", "last"}
    /\ callers = {"r1", "w1", "w2"}
    /\ types = {"base_event", "derived_event"}
    /\ sequential = FALSE
    /\ endless = FALSE
    /\ nested = "none"

\* basic_leftright<subs_multimap, R> for both reader registries R: two
\* observing and two modifying threads, all running concurrently.  All
\* records have one key and nothing here reads their order, so the place
\* of a new record is not varied.
InitLR ==
    /\ InitShared
    /\ registry \in {"atomic_reader_registry", "distributed_atomic_reader_registry"}
    /\ bucket_order = "last"
    /\ callers = Readers \cup Writers
    /\ types = {"base_event"}
    /\ sequential = FALSE
    /\ endless = FALSE
    /\ nested = "none"

\* basic_eventbus called with every event type, one call after the other.
InitSeq ==
    /\ InitShared
    /\ registry = "atomic_reader_registry"
    /\ bucket_order \in {"first", "last"}
    /\ callers = {"r1", "w1"}
    /\ types = EventTypes
    /\ sequential = TRUE
    /\ endless = FALSE
    /\ nested = "none"

(***************************************************************************)
(* basic_eventbus::publish -> basic_leftright::observe                     *)
(***************************************************************************)
\* a chain that goes on to the type derived from base_event
ChainOf_downwards(E) ==
    IF E = "base_event"
    THEN dispatch_typelist(PublishedAs(E)) \o << "derived_event" >>
    ELSE dispatch_typelist(PublishedAs(E))

\* the dispatch chain publish walks for an event of type E
ChainOf(E) == dispatch_typelist(PublishedAs(E))

\* publish(event) is called; observe loads m_registry_index
R_publish(r, E) ==
    /\ rd[r].pc = "idle"
    /\ endless \/ npub < MaxPubs
    /\ E \in types
    /\ MayCall(r)
    /\ rd' = [rd EXCEPT ![r] =
                [IdleReader EXCEPT !.pc = "arrive", !.E = E,
                                   !.idx = m_registry_index,
                                   !.must = returned \ touched,
                                   !.quiet = NoWriter]]
    /\ npub' = IF endless THEN npub ELSE npub + 1
    /\ Track([order EXCEPT !.start[r] = order.floor, !.seen[r] = 0])
    /\ UNCHANGED << shared, build, ss, wr, cookieOf, returned, live, touched,
                    released, nunsub >>

\* an arrive that waits while its thread has a mark in the registry
R_arrive_once(r) ==
    /\ rd[r].pc = "arrive"
    /\ m_reader_registries[rd[r].idx][ShardOf(r)] = 0
    /\ m_reader_registries' =
         [m_reader_registries EXCEPT ![rd[r].idx][ShardOf(r)] = @ + 1]
    /\ rd' = [rd EXCEPT ![r].pc = "load_leftright"]
    /\ UNCHANGED << m_left, m_right, m_leftright, m_registry_index, m_writemutex,
                    build, ss, wr, ghost >>

\* scoped_read_indication(m_reader_registries[idx]): arrive()
R_arrive(r) ==
    /\ rd[r].pc = "arrive"
    /\ m_reader_registries' =
         [m_reader_registries EXCEPT ![rd[r].idx][ShardOf(r)] = @ + 1]
    /\ rd' = [rd EXCEPT ![r].pc = "load_leftright"]
    /\ UNCHANGED << m_left, m_right, m_leftright, m_registry_index, m_writemutex,
                    build, ss, wr, ghost >>

\* an observe that takes the writers' mutex to read m_leftright
R_load_leftright_locked(r) ==
    /\ rd[r].pc = "load_leftright"
    /\ m_writemutex = "unlocked"
    /\ rd' = [rd EXCEPT ![r].pc = "deliver",
                        ![r].side = SideOf(m_leftright),
                        ![r].view = Copy(SideOf(m_leftright)),
                        ![r].pos = 1]
    /\ UNCHANGED << shared, build, ss, wr, ghost >>

\* m_leftright.load(acquire) picks the copy f is called on
R_load_leftright(r) ==
    /\ rd[r].pc = "load_leftright"
    /\ rd' = [rd EXCEPT ![r].pc = "deliver",
                        ![r].side = SideOf(m_leftright),
                        ![r].view = Copy(SideOf(m_leftright)),
                        ![r].pos = 1]
    /\ Track([order EXCEPT !.seen[r] = order.passed[SideOf(m_leftright)]])
    /\ UNCHANGED << shared, build, ss, wr, calls >>

\* one step of for_each_type: deliver::operator()<T>() on the chosen copy
R_deliver(r) ==
    /\ rd[r].pc = "deliver"
    /\ HandlersReturned(r)
    /\ LET chain == ChainOf(rd[r].E)
           invoked == deliver(Copy(rd[r].side), chain[rd[r].pos],
                              PublishedAs(rd[r].E))
       IN  rd' = [rd EXCEPT ![r].log = @ \o invoked,
                            ![r].pos = @ + 1,
                            ![r].pc = IF rd[r].pos = Len(chain)
                                      THEN "depart" ELSE "deliver"]
    /\ UNCHANGED << shared, build, ss, wr, ghost >>

\* a depart() on the registry m_registry_index names at that time
R_depart_current(r) ==
    /\ rd[r].pc = "depart"
    /\ HandlersReturned(r)
    /\ m_reader_registries' =
         [m_reader_registries EXCEPT ![m_registry_index][ShardOf(r)] = @ - 1]
    /\ rd' = [rd EXCEPT ![r] = IdleReader]
    /\ wr' = [w \in Writers |->
                IF Scanned(w) = rd[r].idx
                THEN [wr[w] EXCEPT !.busy = @ /\ Inside(rd[r].idx) # {r},
                                   !.pending = @ \ {r}]
                ELSE wr[w]]
    /\ UNCHANGED << m_left, m_right, m_leftright, m_registry_index, m_writemutex,
                    build, ss, ghost >>

\* ~scoped_read_indication(): depart() on the registry arrived at; publish
\* returns
R_depart(r) ==
    /\ rd[r].pc = "depart"
    /\ HandlersReturned(r)
    /\ m_reader_registries' =
         [m_reader_registries EXCEPT ![rd[r].idx][ShardOf(r)] = @ - 1]
    /\ rd' = [rd EXCEPT ![r] = IdleReader]
    /\ wr' = [w \in Writers |->
                IF Scanned(w) = rd[r].idx
                THEN [wr[w] EXCEPT !.busy = @ /\ Inside(rd[r].idx) # {r},
                                   !.pending = @ \ {r}]
                ELSE wr[w]]
    /\ Track([order EXCEPT !.floor = IF order.seen[r] > @ THEN order.seen[r]
                                     ELSE @])
    /\ UNCHANGED << m_left, m_right, m_leftright, m_registry_index, m_writemutex,
                    build, ss, calls >>

(***************************************************************************)
(* basic_eventbus::subscribe / unsubscribe -> basic_leftright::modify      *)
(***************************************************************************)
\* a call of a writer starts while these publishes are under way
NotQuiet == [r \in Readers |-> [rd[r] EXCEPT !.quiet = FALSE]]

\* subscribe<Event>(handler) is entered: the type_erased_subscriber is
\* allocated
subscribe_call(w, T) ==
    /\ wr[w].pc = "idle"
    /\ Len(cookieOf) < MaxSubs
    /\ T \in types
    /\ \E a \in allocate_shared :
         LET h == Len(cookieOf) + 1
             ck == [id |-> a, ti |-> T]
         IN  /\ wr' = [wr EXCEPT ![w] =
                        [IdleWriter EXCEPT !.pc = "lock", !.op = "subscribe",
                                           !.tesub = [ti |-> T, id |-> a, h |-> h]]]
             /\ cookieOf' = Append(cookieOf, ck)
             /\ touched' = IF \E u \in Writers :
                                 wr[u].op = "unsubscribe" /\ wr[u].c = ck
                           THEN touched \cup {h} ELSE touched
    /\ rd' = NotQuiet
    /\ UNCHANGED << shared, build, returned, live, released, npub, nunsub,
                    order >>

\* a caller calls subscribe<Event>(handler)
W_subscribe(w, T) == MayCall(w) /\ subscribe_call(w, T) /\ UNCHANGED ss

\* the cookies a caller can hold: those subscribe has returned, and cookie()
KnownCookies == {cookieOf[h] : h \in returned} \cup {default_cookie}

\* the subscribe calls a caller can have the cookie value c from (0: from
\* none, the caller made it with cookie())
CookieSources(c) ==
    {h \in returned : cookieOf[h] = c} \cup (IF c = default_cookie THEN {0} ELSE {})

\* unsubscribe(c) is entered, with the cookie subscribe call src returned
\* (src = 0: with cookie())
unsubscribe_call(w, c, src) ==
    /\ wr[w].pc = "idle"
    /\ nunsub < MaxUnsubs
    /\ wr' = [wr EXCEPT ![w] =
                [IdleWriter EXCEPT !.pc = "lock", !.op = "unsubscribe",
                                   !.c = c, !.from = src]]
    /\ released' = released \cup ({src} \ {0})
    /\ touched' = touched \cup {h \in 1..Len(cookieOf) : cookieOf[h] = c}
    /\ nunsub' = nunsub + 1
    /\ rd' = NotQuiet
    /\ UNCHANGED << shared, build, cookieOf, returned, live, npub, order >>

\* a caller calls unsubscribe(c) with the cookie some subscribe call returned
\* to it or with cookie()
W_unsubscribe(w, c) ==
    /\ MayCall(w)
    /\ c \in KnownCookies
    /\ \E h \in CookieSources(c) \ ss.owned : unsubscribe_call(w, c, h)
    /\ UNCHANGED ss

\* a modify that does not wait for m_writemutex
W_lock_unchecked(w) ==
    /\ wr[w].pc = "lock"
    /\ m_writemutex' = w
    /\ wr' = [wr EXCEPT ![w].pc = "f1",
                        ![w].first = Other(SideOf(m_leftright)),
                        ![w].before = Copy(SideOf(m_leftright))]
    /\ UNCHANGED << m_left, m_right, m_leftright, m_registry_index,
                    m_reader_registries, build, ss, rd, ghost >>

\* a modify that writes first the copy readers are sent to
W_lock_active(w) ==
    /\ wr[w].pc = "lock"
    /\ m_writemutex = "unlocked"
    /\ m_writemutex' = w
    /\ wr' = [wr EXCEPT ![w].pc = "f1",
                        ![w].first = SideOf(m_leftright),
                        ![w].before = Copy(SideOf(m_leftright))]
    /\ UNCHANGED << m_left, m_right, m_leftright, m_registry_index,
                    m_reader_registries, build, ss, rd, ghost >>

\* std::unique_lock xlock(m_writemutex); m_leftright.load(relaxed) picks
\* the branch, that is the copy written first; before is the table readers
\* are sent to as the write begins
W_lock(w) ==
    /\ wr[w].pc = "lock"
    /\ m_writemutex = "unlocked"
    /\ m_writemutex' = w
    /\ wr' = [wr EXCEPT ![w].pc = "f1",
                        ![w].first = Other(SideOf(m_leftright)),
                        ![w].before = Copy(SideOf(m_leftright))]
    /\ UNCHANGED << m_left, m_right, m_leftright, m_registry_index,
                    m_reader_registries, build, ss, rd, ghost >>

\* what modify has done, for the record wr[w].steps keeps of its call
Did(op, arg) == [op |-> op, arg |-> arg]

\* the functor of the call of writer w, applied to a table
Functor(w, subs) ==
    IF wr[w].op = "subscribe"
    THEN subscribe_f(subs, wr[w].tesub, bucket_order)
    ELSE unsubscribe_f(subs, wr[w].c)

\* modify applying f to the first copy only
ApplyTo_once(w, side) ==
    IF side # wr[w].first THEN UNCHANGED << m_left, m_right >>
    ELSE IF side = "left"
    THEN m_left' = Functor(w, m_left) /\ UNCHANGED m_right
    ELSE m_right' = Functor(w, m_right) /\ UNCHANGED m_left

\* f(copy) on one side
ApplyTo(w, side) ==
    IF side = "left"
    THEN m_left' = Functor(w, m_left) /\ UNCHANGED m_right
    ELSE m_right' = Functor(w, m_right) /\ UNCHANGED m_left

\* f(m_right) resp. f(m_left): the copy readers are not sent to
W_f1(w) ==
    /\ wr[w].pc = "f1"
    /\ ApplyTo(w, wr[w].first)
    /\ wr' = [wr EXCEPT ![w].pc = "store_leftright",
                        ![w].steps = Append(@, Did("f", wr[w].first))]
    /\ Track([order EXCEPT !.tables = Append(@, Functor(w, @[Len(@)])),
                           !.passed[wr[w].first] = @ + 1])
    /\ UNCHANGED << m_leftright, m_registry_index, m_reader_registries,
                    m_writemutex, build, ss, rd, calls >>

\* m_leftright.store(..., release); toggle_reader_registry then loads
\* m_registry_index, which only the holder of m_writemutex stores to
W_store_leftright(w) ==
    /\ wr[w].pc = "store_leftright"
    /\ m_leftright' = ReadOf(wr[w].first)
    /\ wr' = [wr EXCEPT ![w].pc = "wait_next",
                        ![w].current = m_registry_index,
                        ![w].scan = 0,
                        ![w].steps = Append(@, Did("store_leftright",
                                                   ReadOf(wr[w].first)))]
    /\ UNCHANGED << m_left, m_right, m_registry_index, m_reader_registries,
                    m_writemutex, build, ss, rd, ghost >>

\* a toggle that waits for the registry readers are arriving at
NextOf_same(current) == current

\* next = (current + 1) & 0x1
NextOf(current) == (current + 1) % 2

\* toggle_reader_registry without its wait loops
WaitEmpty_skipped(w, reg, then) ==
    wr' = [wr EXCEPT ![w].scan = 0, ![w].pc = then]

\* an empty() that reads the first counter of the registry only
WaitEmpty_first_counter(w, reg, then) ==
    IF m_reader_registries[reg][0] # 0
    THEN wr' = [wr EXCEPT ![w].scan = 0, ![w].busy = FALSE,
                          ![w].pending = {}]
    ELSE wr' = [wr EXCEPT ![w].scan = 0, ![w].pc = then,
                          ![w].busy = Inside(reg) # {},
                          ![w].pending = Inside(reg),
                          ![w].steps = Append(@, Did("empty", reg))]

\* One counter load of ReaderRegistry::empty() on registry reg, inside
\* while(!empty()) yield(): a counter that is not zero makes empty() false
\* and the loop calls it again; after the last counter read as zero empty()
\* is true and the loop is left for pc `then`.
\* busy and pending record what the registry did during the call: busy, a
\* reader was inside at every instant since the call's first load; pending,
\* the readers inside at the first load that have not departed since.
WaitEmpty(w, reg, then) ==
    LET busy == IF wr[w].scan = 0 THEN Inside(reg) # {} ELSE wr[w].busy
        pending == IF wr[w].scan = 0 THEN Inside(reg) ELSE wr[w].pending
    IN  IF m_reader_registries[reg][wr[w].scan] # 0
        THEN wr' = [wr EXCEPT ![w].scan = 0, ![w].busy = FALSE,
                              ![w].pending = {}]
        ELSE IF wr[w].scan + 1 = CountersOf(registry)
             THEN wr' = [wr EXCEPT ![w].scan = 0, ![w].pc = then,
                                   ![w].busy = busy, ![w].pending = pending,
                                   ![w].steps = Append(@, Did("empty", reg))]
             ELSE wr' = [wr EXCEPT ![w].scan = @ + 1,
                                   ![w].busy = busy, ![w].pending = pending]

\* while(!m_reader_registries[next].empty()) yield();
W_wait_next(w) ==
    /\ wr[w].pc = "wait_next"
    /\ WaitEmpty(w, NextOf(wr[w].current), "store_index")
    /\ UNCHANGED << shared, build, ss, rd, ghost >>

\* m_registry_index.store(next, release)
W_store_index(w) ==
    /\ wr[w].pc = "store_index"
    /\ m_registry_index' = NextOf(wr[w].current)
    /\ wr' = [wr EXCEPT ![w].pc = "wait_current",
                        ![w].steps = Append(@, Did("store_index",
                                                   NextOf(wr[w].current)))]
    /\ UNCHANGED << m_left, m_right, m_leftright, m_reader_registries,
                    m_writemutex, build, ss, rd, ghost >>

\* while(!m_reader_registries[current].empty()) yield();
W_wait_current(w) ==
    /\ wr[w].pc = "wait_current"
    /\ WaitEmpty(w, wr[w].current, "f2")
    /\ UNCHANGED << shared, build, ss, rd, ghost >>

\* return f(m_left) resp. f(m_right): the copy readers have left; then
\* ~unique_lock releases m_writemutex and modify returns: subscribe's tesub
\* goes out of scope and its cookie is returned
W_f2(w) ==
    /\ wr[w].pc = "f2"
    /\ ApplyTo(w, Other(wr[w].first))
    /\ m_writemutex' = "unlocked"
    /\ wr' = [wr EXCEPT ![w] = IdleWriter]
    /\ IF wr[w].op = "subscribe"
       THEN /\ returned' = returned \cup {wr[w].tesub.h}
            /\ live' = live \cup {wr[w].tesub.h}
       ELSE /\ returned' = returned
            /\ live' = {h \in live : cookieOf[h] # wr[w].c}
    /\ Track([order EXCEPT !.passed[Other(wr[w].first)] = @ + 1])
    /\ UNCHANGED << m_leftright, m_registry_index, m_reader_registries,
                    build, ss, rd, cookieOf, touched, released, npub, nunsub >>

\* the steps of observe, and of the functor publish gives it, after the call
ReaderStep(r) ==
    R_arrive(r) \/ R_load_leftright(r) \/ R_deliver(r) \/ R_depart(r)

\* the steps of modify, and of the functor given to it, after the call
WriterStep(w) ==
    \/ W_lock(w) \/ W_f1(w) \/ W_store_leftright(w) \/ W_wait_next(w)
    \/ W_store_index(w) \/ W_wait_current(w) \/ W_f2(w)

Next ==
    \/ \E r \in Readers, E \in EventTypes \cup DeclaringTypes : R_publish(r, E)
    \/ \E r \in Readers : R_arrive(r)
    \/ \E r \in Readers : R_load_leftright(r)
    \/ \E r \in Readers : R_deliver(r)
    \/ \E r \in Readers : R_depart(r)
    \/ \E w \in Writers, T \in EventTypes \cup DeclaringTypes : W_subscribe(w, T)
    \/ \E w \in Writers, c \in KnownCookies : W_unsubscribe(w, c)
    \/ \E w \in Writers : W_lock(w)
    \/ \E w \in Writers : W_f1(w)
    \/ \E w \in Writers : W_store_leftright(w)
    \/ \E w \in Writers : W_wait_next(w)
    \/ \E w \in Writers : W_store_index(w)
    \/ \E w \in Writers : W_wait_current(w)
    \/ \E w \in Writers : W_f2(w)

Spec == Init /\ [][Next]_vars

SpecLR == InitLR /\ [][Next]_vars

SpecSeq == InitSeq /\ [][Next]_vars

\* basic_leftright<subs_multimap, R> for both reader registries, with two
\* threads that call publish again and again and one that subscribes and
\* unsubscribes: every thread that is inside a call is scheduled again and
\* again.
InitLive ==
    /\ InitShared
    /\ registry \in {"atomic_reader_registry", "distributed_atomic_reader_registry"}
    /\ bucket_order = "last"
    /\ callers = {"r1", "r2", "w1"}
    /\ types = {"base_event"}
    /\ sequential = FALSE
    /\ endless = TRUE
    /\ nested = "none"

\* the scheduler runs every thread that can take a step of its call
Scheduling ==
    /\ \A r \in Readers : WF_vars(ReaderStep(r))
    /\ \A w \in Writers : WF_vars(WriterStep(w))

SpecLive == InitLive /\ [][Next]_vars /\ Scheduling

\* basic_eventbus whose handlers call publish: r1 publishes, r2 stands for
\* the publish calls of the handlers r1 invokes, and w1 subscribes and
\* unsubscribes on a thread of its own.
InitNested ==
    /\ InitShared
    /\ registry \in {"atomic_reader_registry", "distributed_atomic_reader_registry"}
    /\ bucket_order = "last"
    /\ callers = {"r1", "r2", "w1"}
    /\ types = {"base_event"}
    /\ sequential = FALSE
    /\ endless = FALSE
    /\ nested = "publish"

SpecNested == InitNested /\ [][Next]_vars /\ Scheduling

\* basic_eventbus whose handlers call subscribe and unsubscribe: r1
\* publishes, w2 stands for the calls of the handlers r1 invokes, and w1
\* subscribes and unsubscribes on a thread of its own.
InitHandlerModify ==
    /\ InitShared
    /\ registry \in {"atomic_reader_registry", "distributed_atomic_reader_registry"}
    /\ bucket_order = "last"
    /\ callers = {"r1", "w1", "w2"}
    /\ types = {"base_event"}
    /\ sequential = FALSE
    /\ endless = FALSE
    /\ nested = "modify"

SpecHandlerModify == InitHandlerModify /\ [][Next]_vars

(***************************************************************************)
(* observe under the memory orderings of the code.  arrive() is a          *)
(* fetch_add with memory_order_release and the load of m_leftright that    *)
(* follows it is memory_order_acquire: neither orders the load after the   *)
(* increment, so the load may take its value before the increment is       *)
(* visible to the writer.  The steps below are that outcome; the steps of  *)
(* Next are the others.                                                    *)
(***************************************************************************)
\* m_leftright.load(acquire) takes its value although arrive() comes before
\* it in the program
R_load_leftright_early(r) ==
    /\ rd[r].pc = "arrive"
    /\ rd' = [rd EXCEPT ![r].pc = "arrive_late",
                        ![r].side = SideOf(m_leftright),
                        ![r].view = Copy(SideOf(m_leftright))]
    /\ UNCHANGED << shared, build, ss, wr, ghost >>

\* the fetch_add of arrive() becomes visible; observe calls f on the copy
\* its load picked
R_arrive_late(r) ==
    /\ rd[r].pc = "arrive_late"
    /\ m_reader_registries' =
         [m_reader_registries EXCEPT ![rd[r].idx][ShardOf(r)] = @ + 1]
    /\ rd' = [rd EXCEPT ![r].pc = "deliver", ![r].pos = 1]
    /\ UNCHANGED << m_left, m_right, m_leftright, m_registry_index, m_writemutex,
                    build, ss, wr, ghost >>

\* basic_eventbus on hardware and a compiler that use the freedom the
\* memory orderings leave: one publishing thread and one subscribing and
\* unsubscribing thread, for both reader registries.
InitWeak ==
    /\ InitShared
    /\ registry \in {"atomic_reader_registry", "distributed_atomic_reader_registry"}
    /\ bucket_order = "last"
    /\ callers = {"r1", "w1"}
    /\ types = {"base_event"}
    /\ sequential = FALSE
    /\ endless = FALSE
    /\ nested = "none"

NextWeak ==
    \/ Next
    \/ \E r \in Readers : R_load_leftright_early(r)
    \/ \E r \in Readers : R_arrive_late(r)

SpecWeak == InitWeak /\ [][NextWeak]_vars

\* basic_eventbus called with base_event, my_object and the event types
\* that supply their own dispatch_as typedef, one call after the other.
InitDeclared ==
    /\ InitShared
    /\ registry = "atomic_reader_registry"
    /\ bucket_order \in {"first", "last"}
    /\ callers = {"r1", "w1"}
    /\ types = {"base_event", "my_object"} \cup DeclaringTypes
    /\ sequential = TRUE
    /\ endless = FALSE
    /\ nested = "none"

SpecDeclared == InitDeclared /\ [][Next]_vars

(***************************************************************************)
(* The order of the modify calls.                                          *)
(***************************************************************************)
\* basic_eventbus with two publishing and two subscribing/unsubscribing
\* threads, all running concurrently, and the record of the order in which
\* the modify calls took m_writemutex.
InitOrder ==
    /\ InitCalls
    /\ order = [NoOrder EXCEPT !.on = TRUE]
    /\ registry = "atomic_reader_registry"
    /\ bucket_order = "last"
    /\ callers = Readers \cup Writers
    /\ types = {"base_event"}
    /\ sequential = FALSE
    /\ endless = FALSE
    /\ nested = "none"

SpecOrder == InitOrder /\ [][Next]_vars

(***************************************************************************)
(* scoped_subscription<Event>.  The objects are used by the thread of w1,  *)
(* one member function at a time, and their calls of the bus are calls of  *)
(* w1.                                                                     *)
(***************************************************************************)
\* the thread that uses the scoped_subscription objects
HolderThread == "w1"

\* a member function of x may be called
HolderMay(x) == x \in callers /\ HolderThread \in callers /\ AllIdle

\* the call of the bus a member function made has returned
CallReturned == wr[HolderThread].pc = "idle"

\* the cookie of the subscribe call that returned last
LastCookie == cookieOf[Len(cookieOf)]

\* the subscriptions object x would unsubscribe
Managed(x) == IF ss.obj[x].m_ebus THEN {ss.obj[x].from} \ {0} ELSE {}

\* reset(): if(m_ebus) m_ebus->unsubscribe(m_cookie);
reset(x) ==
    IF ss.obj[x].m_ebus
    THEN unsubscribe_call(HolderThread, ss.obj[x].m_cookie, ss.obj[x].from)
    ELSE UNCHANGED << shared, build, rd, wr, ghost >>

\* scoped_subscription(): m_ebus(nullptr)
S_default(x, T) ==
    /\ HolderMay(x)
    /\ ss.obj[x].state = "none"
    /\ T \in types
    /\ ss' = [ss EXCEPT !.obj[x] =
                [NoHolder EXCEPT !.state = "alive", !.event_type = T,
                                 !.empty = TRUE]]
    /\ UNCHANGED << shared, build, rd, wr, ghost >>

\* scoped_subscription(ebus, h): m_ebus(&ebus), m_cookie(ebus.subscribe(h)):
\* subscribe is called
S_construct(x, T) ==
    /\ HolderMay(x)
    /\ ss.obj[x].state = "none"
    /\ subscribe_call(HolderThread, T)
    /\ ss' = [ss EXCEPT !.pc = "construct", !.x = x,
                        !.obj[x].event_type = T,
                        !.owned = @ \cup {Len(cookieOf) + 1}]

\* ... and its cookie initializes m_cookie
S_construct_done ==
    /\ ss.pc = "construct"
    /\ CallReturned
    /\ ss' = [ss EXCEPT !.pc = "idle", !.x = "none",
                        !.obj[ss.x].state = "alive",
                        !.obj[ss.x].m_ebus = TRUE,
                        !.obj[ss.x].m_cookie = LastCookie,
                        !.obj[ss.x].from = Len(cookieOf)]
    /\ UNCHANGED << shared, build, rd, wr, ghost >>

\* x.reset()
S_reset(x) ==
    /\ HolderMay(x)
    /\ ss.obj[x].state = "alive"
    /\ reset(x)
    /\ ss' = [ss EXCEPT !.obj[x].taken = FALSE]

\* a destructor that does not call reset()
S_destroy_no_reset(x) ==
    /\ HolderMay(x)
    /\ ss.obj[x].state = "alive"
    /\ ss' = [ss EXCEPT !.obj[x].state = "gone", !.obj[x].taken = FALSE,
                        !.dropped = @ \cup Managed(x)]
    /\ UNCHANGED << shared, build, rd, wr, ghost >>

\* ~scoped_subscription(): reset(); x is gone
S_destroy(x) ==
    /\ HolderMay(x)
    /\ ss.obj[x].state = "alive"
    /\ reset(x)
    /\ ss' = [ss EXCEPT !.obj[x].state = "gone", !.obj[x].taken = FALSE,
                        !.dropped = @ \cup Managed(x)]

\* x.assign(ebus, h): reset();
S_assign(x) ==
    /\ HolderMay(x)
    /\ ss.obj[x].state = "alive"
    /\ Len(cookieOf) < MaxSubs
    /\ reset(x)
    /\ ss' = [ss EXCEPT !.pc = "assign_subscribe", !.x = x,
                        !.obj[x].taken = FALSE,
                        !.let_go = @ \cup Managed(x)]

\* ... m_ebus = &ebus; ebus.subscribe<event_type>(h) is called
S_assign_subscribe ==
    /\ ss.pc = "assign_subscribe"
    /\ CallReturned
    /\ subscribe_call(HolderThread, ss.obj[ss.x].event_type)
    /\ ss' = [ss EXCEPT !.pc = "assign_cookie", !.obj[ss.x].m_ebus = TRUE,
                        !.owned = @ \cup {Len(cookieOf) + 1}]

\* ... m_cookie = the cookie subscribe returned
S_assign_cookie ==
    /\ ss.pc = "assign_cookie"
    /\ CallReturned
    /\ ss' = [ss EXCEPT !.pc = "idle", !.x = "none",
                        !.obj[ss.x].m_cookie = LastCookie,
                        !.obj[ss.x].from = Len(cookieOf),
                        !.obj[ss.x].empty = FALSE,
                        !.obj[ss.x].taken = TRUE]
    /\ UNCHANGED << shared, build, rd, wr, ghost >>

\* a move constructor that leaves other.m_ebus as it is
S_move_construct_copy(x, y) ==
    /\ HolderMay(x)
    /\ y \in callers
    /\ x # y
    /\ ss.obj[x].state = "none"
    /\ ss.obj[y].state = "alive"
    /\ ss' = [ss EXCEPT !.obj[x] = [ss.obj[y] EXCEPT !.taken = FALSE],
                        !.obj[y].empty = TRUE,
                        !.obj[y].taken = FALSE]
    /\ UNCHANGED << shared, build, rd, wr, ghost >>

\* scoped_subscription(scoped_subscription&& other): m_ebus(other.m_ebus),
\* m_cookie(other.m_cookie); other.m_ebus = nullptr
S_move_construct(x, y) ==
    /\ HolderMay(x)
    /\ y \in callers
    /\ x # y
    /\ ss.obj[x].state = "none"
    /\ ss.obj[y].state = "alive"
    /\ ss' = [ss EXCEPT !.obj[x] = [ss.obj[y] EXCEPT !.taken = FALSE],
                        !.obj[y].m_ebus = FALSE,
                        !.obj[y].empty = TRUE,
                        !.obj[y].taken = FALSE]
    /\ UNCHANGED << shared, build, rd, wr, ghost >>

\* x = std::move(y), operator=(scoped_subscription&& other): reset();
S_move_assign(x, y) ==
    /\ HolderMay(x)
    /\ y \in callers
    /\ x # y
    /\ ss.obj[x].state = "alive"
    /\ ss.obj[y].state = "alive"
    /\ ss.obj[x].event_type = ss.obj[y].event_type
    /\ reset(x)
    /\ ss' = [ss EXCEPT !.pc = "move_assign", !.x = x, !.y = y,
                        !.obj[x].taken = FALSE,
                        !.let_go = @ \cup Managed(x)]

\* what the end of a function that returns a value without a return
\* statement can do: return to the caller, or not return (the behaviour is
\* undefined: the build may trap or run on past the end of the function)
FlowsOffTheEnd == {"idle", "undefined"}

\* ... m_ebus = other.m_ebus; m_cookie = other.m_cookie;
\* other.m_ebus = nullptr; and the function ends without a return statement
S_move_assign_take ==
    /\ ss.pc = "move_assign"
    /\ CallReturned
    /\ \E end \in FlowsOffTheEnd :
         ss' = [ss EXCEPT !.pc = end, !.x = "none", !.y = "none",
                          !.obj[ss.x].m_ebus = ss.obj[ss.y].m_ebus,
                          !.obj[ss.x].m_cookie = ss.obj[ss.y].m_cookie,
                          !.obj[ss.x].from = ss.obj[ss.y].from,
                          !.obj[ss.x].empty = ss.obj[ss.y].empty,
                          !.obj[ss.x].taken = (Managed(ss.y) \ released # {}),
                          !.obj[ss.y].m_ebus = FALSE,
                          !.obj[ss.y].empty = TRUE,
                          !.obj[ss.y].taken = FALSE]
    /\ UNCHANGED << shared, build, rd, wr, ghost >>

\* basic_eventbus used through scoped_subscription objects a and b and
\* directly, by one thread, one call after the other.
InitScoped ==
    /\ InitShared
    /\ registry = "atomic_reader_registry"
    /\ bucket_order = "last"
    /\ callers = {"r1", "w1", "a", "b"}
    /\ types = {"base_event"}
    /\ sequential = TRUE
    /\ endless = FALSE
    /\ nested = "none"

NextScoped ==
    \/ Next
    \/ \E x \in Holders, T \in EventTypes : S_default(x, T)
    \/ \E x \in Holders, T \in EventTypes : S_construct(x, T)
    \/ S_construct_done
    \/ \E x \in Holders : S_reset(x)
    \/ \E x \in Holders : S_destroy(x)
    \/ \E x \in Holders : S_assign(x)
    \/ S_assign_subscribe
    \/ S_assign_cookie
    \/ \E x, y \in Holders : S_move_construct(x, y)
    \/ \E x, y \in Holders : S_move_assign(x, y)
    \/ S_move_assign_take

SpecScoped == InitScoped /\ [][NextScoped]_vars

\* x.swap(y): swap(m_ebus, other.m_ebus); swap(m_cookie, other.m_cookie)
S_swap(x, y) ==
    /\ HolderMay(x)
    /\ y \in callers
    /\ x # y
    /\ ss.obj[x].state = "alive"
    /\ ss.obj[y].state = "alive"
    /\ ss.obj[x].event_type = ss.obj[y].event_type
    /\ ss' = [ss EXCEPT !.obj[x] = ss.obj[y], !.obj[y] = ss.obj[x]]
    /\ UNCHANGED << shared, build, rd, wr, ghost >>

NextSwap == NextScoped \/ \E x, y \in Holders : S_swap(x, y)

\* the scoped_subscription objects with every member function, swap included
SpecSwap == InitScoped /\ [][NextSwap]_vars

(***************************************************************************)
(* Properties.                                                             *)
(***************************************************************************)
\* the side the functor of writer w is being applied to, "none" outside f
Writing(w) ==
    IF wr[w].pc = "f1" THEN wr[w].first
    ELSE IF wr[w].pc = "f2" THEN Other(wr[w].first)
    ELSE "none"

\* C1: no torn reads.  While a reader is inside its functor on a copy, no
\* writer is inside its functor on that copy, and the copy is still the
\* table the reader found when it entered; for both reader registries.
C1_NoTornRead ==
    \A r \in Readers :
        rd[r].pc = "deliver" =>
            /\ \A w \in Writers : Writing(w) # rd[r].side
            /\ Copy(rd[r].side) = rd[r].view

\* a reader of the sharded registry is inside its functor on a table that
\* holds a record while a writer applies its functor to the other copy for
\* the second time
C1_Witness ==
    \E r \in Readers, w \in Writers :
        /\ registry = "distributed_atomic_reader_registry"
        /\ rd[r].pc = "deliver"
        /\ rd[r].view # << >>
        /\ wr[w].pc = "f2"
        /\ Writing(w) = Other(rd[r].side)

\* the handlers of the subscribe calls made so far
Handlers == 1..Len(cookieOf)

\* the event type handler h was subscribed for
TypeOf(h) == cookieOf[h].ti

\* how often h was invoked in a log
Count(log, h) == Cardinality({i \in 1..Len(log) : log[i] = h})

\* T is an element of the dispatch chain of a published E
InChain(T, E) == \E i \in 1..Len(ChainOf(E)) : ChainOf(E)[i] = T

\* the functor of a publish has walked its whole chain
Walked(r) == rd[r].pc = "depart"

\* a writer is inside modify
Modifying(w) == wr[w].pc \notin {"idle", "lock"}

\* C2: a publish(E) that began after subscribe<T> had returned, with T in
\* the chain of E and no unsubscribe call given the subscription's cookie
\* up to the end of the publish, has invoked the handler, whatever modify
\* calls ran meanwhile.
C2_PublishAfterSubscribe ==
    \A r \in Readers :
        Walked(r) =>
            \A h \in rd[r].must \ touched :
                InChain(TypeOf(h), rd[r].E) => Count(rd[r].log, h) >= 1

\* a publish of derived_event that began after a subscribe<base_event> had
\* returned has invoked its handler although a modify switched the copies
\* during the publish and is still in progress
C2_Witness ==
    \E r \in Readers, w \in Writers, h \in Handlers :
        /\ Walked(r)
        /\ h \in rd[r].must \ touched
        /\ rd[r].E = "derived_event"
        /\ TypeOf(h) = "base_event"
        /\ Count(rd[r].log, h) = 1
        /\ Modifying(w)
        /\ rd[r].side # SideOf(m_leftright)

\* C3: (a) once unsubscribe(c) has returned, the handler of c is in the log
\* of no publish that is under way, so no publish that begins afterwards
\* invokes it; (b) a publish on a quiescent bus invokes every handler whose
\* subscribe has returned, whose cookie no returned unsubscribe was given
\* and whose type is in the chain of the published event.
C3_RoundTrip ==
    \A r \in Readers :
        /\ \A h \in returned \ live : Count(rd[r].log, h) = 0
        /\ (Walked(r) /\ rd[r].quiet) =>
              \A h \in live :
                  InChain(TypeOf(h), rd[r].E) => Count(rd[r].log, h) >= 1

\* a publish has walked its chain after unsubscribe(c) returned, with the
\* type of c in its chain, and has invoked the other, still subscribed,
\* handler only
C3_Witness ==
    \E r \in Readers, g \in returned \ live, h \in live :
        /\ Walked(r)
        /\ rd[r].quiet
        /\ InChain(TypeOf(g), rd[r].E)
        /\ rd[r].log = << h >>

\* C4: a publish(E) on a quiescent bus invokes exactly once each handler
\* that is subscribed, not unsubscribed, and whose type is in the dispatch
\* chain of E, and invokes no other handler.
C4_QuiescentDelivery ==
    \A r \in Readers :
        (Walked(r) /\ rd[r].quiet) =>
            \A h \in Handlers :
                Count(rd[r].log, h) =
                    IF h \in live /\ InChain(TypeOf(h), rd[r].E) THEN 1 ELSE 0

\* after two subscribes and an unsubscribe call a quiescent publish of
\* base_event has invoked the base_event handler and not the
\* derived_event handler
C4_Witness ==
    \E r \in Readers, h \in live, g \in live :
        /\ Walked(r)
        /\ rd[r].quiet
        /\ rd[r].E = "base_event"
        /\ TypeOf(h) = "base_event"
        /\ TypeOf(g) = "derived_event"
        /\ rd[r].log = << h >>
        /\ nunsub > 0

\* A is a proper base class of B
StrictBase(A, B) == A # B /\ A \in BasesOf(B)

\* the place of type T in the dispatch chain of a published E (0: not in it)
ChainPos(T, E) ==
    IF InChain(T, E)
    THEN CHOOSE i \in 1..Len(ChainOf(E)) : ChainOf(E)[i] = T
    ELSE 0

\* C5: within one publish(E) the handlers are invoked in dispatch-chain
\* order: a handler of an earlier chain element is never invoked after a
\* handler of a later one, and so a handler of a more derived type never
\* after a handler of one of its base classes.
C5_ChainOrder ==
    \A r \in Readers :
        \A i, j \in 1..Len(rd[r].log) :
            i < j =>
                LET Ti == TypeOf(rd[r].log[i])
                    Tj == TypeOf(rd[r].log[j])
                IN  /\ ChainPos(Ti, rd[r].E) <= ChainPos(Tj, rd[r].E)
                    /\ ~StrictBase(Ti, Tj)

\* a publish of very_derived_event has invoked the very_derived_event
\* handler and then the derived_event handler, which was subscribed first
C5_Witness ==
    \E r \in Readers, h, g \in live :
        /\ Walked(r)
        /\ rd[r].E = "very_derived_event"
        /\ TypeOf(h) = "derived_event"
        /\ TypeOf(g) = "very_derived_event"
        /\ h < g
        /\ rd[r].log = << g, h >>

\* the handlers of one key invoked in a log, in the order of invocation
SameKey(log, i, j) == i < j /\ TypeOf(log[i]) = TypeOf(log[j])

DeclaredPolymorphic == {T \in EventTypes : TypeDecl(T).kind = "polymorphic_event"}

\* T and the ancestors T declares through polymorphic_event
RECURSIVE DeclaredAncestors(_)
DeclaredAncestors(T) ==
    IF T = EventRoot THEN {}
    ELSE {T} \cup DeclaredAncestors(TypeDecl(T).base)

C8_NeverDownwards ==
    \A r \in Readers :
        \A i \in 1..Len(rd[r].log) :
            ~StrictBase(rd[r].E, TypeOf(rd[r].log[i]))

\* a publish of base_event with handlers for base_event and derived_event
\* subscribed has invoked the base_event handler only
C8_Witness ==
    \E r \in Readers, h, g \in live :
        /\ Walked(r)
        /\ rd[r].E = "base_event"
        /\ TypeOf(h) = "base_event"
        /\ StrictBase("base_event", TypeOf(g))
        /\ rd[r].log = << h >>

\* the event types that do not derive from detail::event
OrdinaryTypes == {T \in EventTypes : ~is_base_of_event(T)}

\* C9: for types related by ordinary inheritance only, delivery is by exact
\* type: a publish of an E invokes no handler subscribed for another type
\* (so none for a base class of E) and has invoked every subscribed handler
\* for E exactly once when it returns.
C9_ExactTypeOnly ==
    \A r \in Readers :
        rd[r].E \in OrdinaryTypes =>
            /\ \A i \in 1..Len(rd[r].log) : TypeOf(rd[r].log[i]) = rd[r].E
            /\ Walked(r) =>
                  \A h \in live : TypeOf(h) = rd[r].E => Count(rd[r].log, h) = 1

\* a publish of my_non_polymorphic_event, which inherits from my_object,
\* with a handler for each subscribed, has invoked only its own handler
C9_Witness ==
    \E r \in Readers, h, g \in live :
        /\ Walked(r)
        /\ rd[r].E = "my_non_polymorphic_event"
        /\ TypeOf(h) = "my_object"
        /\ StrictBase("my_object", rd[r].E)
        /\ TypeOf(g) = rd[r].E
        /\ rd[r].log = << g >>

\* every cookie value: an address or 0, with a subscribed type or nullptr_t
AllCookies ==
    {[id |-> a, ti |-> T] : a \in 0..MaxAddr, T \in types \cup {"nullptr_t"}}

\* the dispatch chain and the published object of every event type
ChainTable == [E \in EventTypes |-> ChainOf(E)]
ObjectTable == [E \in EventTypes |-> PublishedAs(E)]

\* the handlers a publish of an E invokes on table subs, in order
Deliveries(subs, E) == for_each_type(subs, ChainTable[E], 1, ObjectTable[E])

\* C10: unsubscribe is idempotent.  For every table a copy can hold and
\* every cookie c, the functor of unsubscribe(c) applied a second time
\* leaves the table as the first application left it, and so the handlers
\* that a publish of any event type then invokes.
C10_UnsubscribeIdempotent ==
    \A c \in AllCookies :
        \A once \in {unsubscribe_f(m_left, c), unsubscribe_f(m_right, c)} :
            \A twice \in {unsubscribe_f(once, c)} :
                /\ twice = once
                /\ \A E \in types : Deliveries(twice, E) = Deliveries(once, E)

\* unsubscribe(c) is called again after unsubscribe(c) returned: its functor
\* has run on the first copy, which still holds another record of the key
\* of c, and both copies are as the first call left them
C10_Witness ==
    \E w \in Writers, g \in returned \ live :
        /\ wr[w].pc = "store_leftright"
        /\ wr[w].op = "unsubscribe"
        /\ wr[w].c = cookieOf[g]
        /\ \A h \in live : cookieOf[h] # wr[w].c
        /\ equal_range(Copy(wr[w].first), wr[w].c.ti) # << >>
        /\ m_left = m_right
        /\ nunsub = 2

\* table subs holds the record of handler h
Present(subs, h) == \E i \in 1..Len(subs) : subs[i].h = h

\* C11: an unsubscribe with a stale or an unknown cookie removes no record.
\* A subscription whose subscribe has returned and whose own cookie no
\* unsubscribe call was given keeps its record in both copies, whatever
\* other cookies unsubscribe was called with, so every later publish still
\* delivers to it.
C11_StaleCookieInert ==
    \A h \in returned \ released : Present(m_left, h) /\ Present(m_right, h)

\* the steps a publish call in the state rec has left at most
StepsLeft(rec) ==
    CASE rec.pc = "arrive" -> 3 + Len(ChainOf(rec.E))
      [] rec.pc = "load_leftright" -> 2 + Len(ChainOf(rec.E))
      [] rec.pc = "deliver" -> 2 + Len(ChainOf(rec.E)) - rec.pos
      [] rec.pc = "depart" -> 1
      [] OTHER -> 0

\* C12: observe never blocks.  In every state a reader that is inside
\* publish can take its next step, whatever the writers and the other
\* readers are doing, and the step brings it nearer to its return: observe
\* ends after at most 3 steps of its own and one per chain element.
C12_ObserveNeverBlocks ==
    \A r \in Readers :
        rd[r].pc # "idle" =>
            ENABLED (ReaderStep(r) /\ StepsLeft(rd'[r]) < StepsLeft(rd[r]))

\* a reader has arrived at a registry and is about to load m_leftright while
\* a writer holds the mutex and waits for that very registry to empty, and
\* the other writer waits for the mutex
C12_Witness ==
    \E r \in Readers, w, u \in Writers :
        /\ rd[r].pc = "load_leftright"
        /\ m_writemutex = w
        /\ wr[w].pc = "wait_current"
        /\ wr[w].current = rd[r].idx
        /\ wr[u].pc = "lock"
        /\ registry = "distributed_atomic_reader_registry"

\* C13: under fair scheduling, with functors that terminate, every modify
\* call returns: a writer that is inside subscribe or unsubscribe is
\* eventually out of it, although other threads keep starting new publish
\* calls.
C13_ModifyReturns ==
    \A w \in Writers : (wr[w].pc # "idle") ~> (wr[w].pc = "idle")

\* a writer waits for the registry it will switch the readers to while one
\* reader is still inside its functor with a mark in that registry and
\* another, which started later, is inside its functor with a mark in the
\* current registry
C13_Witness ==
    \E w \in Writers, r, q \in Readers :
        /\ endless
        /\ wr[w].pc = "wait_next"
        /\ rd[r].pc = "deliver"
        /\ rd[r].idx = NextOf(wr[w].current)
        /\ rd[q].pc = "deliver"
        /\ rd[q].idx = wr[w].current

\* C14: a publish called by a handler completes, and then the publish that
\* invoked the handler completes, in every interleaving with a modify of
\* another thread.
C14_NestedPublishCompletes ==
    /\ (rd["r2"].pc # "idle") ~> (rd["r2"].pc = "idle")
    /\ (rd["r1"].pc # "idle") ~> (rd["r1"].pc = "idle")

\* the publish of a handler is inside its functor on one copy while the
\* publish that invoked the handler is inside its functor on the other, with
\* both marks in one registry that a writer is waiting for
C14_Witness ==
    /\ nested = "publish"
    /\ InHandler("r1")
    /\ rd["r2"].pc = "deliver"
    /\ rd["r1"].side # rd["r2"].side
    /\ rd["r1"].idx = rd["r2"].idx
    /\ wr["w1"].pc = "wait_current"
    /\ wr["w1"].current = rd["r1"].idx

\* C15: a subscribe or unsubscribe called by a handler never returns: no
\* step takes a writer that runs on the thread of an open observe out of
\* its call.
C15_HandlerModifyDeadlocks ==
    [][\A w \in Writers :
          ThreadOf(w) # w => ~(wr[w].pc # "idle" /\ wr'[w].pc = "idle")]_vars

\* the modify of a handler holds the mutex and waits for the registry it
\* would switch the readers to, which holds the mark of its own thread,
\* while the writer of another thread waits for the mutex
C15_Witness ==
    /\ nested = "modify"
    /\ InHandler("r1")
    /\ m_writemutex = "w2"
    /\ wr["w2"].pc = "wait_next"
    /\ rd["r1"].idx = NextOf(wr["w2"].current)
    /\ wr["w1"].pc = "lock"

\* the destructor of a scoped_subscription has returned
Destroyed(x) == ss.obj[x].state = "gone" /\ CallReturned

\* C16: a scoped_subscription that manages a subscription unsubscribes it
\* when it is destroyed: once its destructor has returned, the record of the
\* subscription is in neither copy of the table, and no publish made
\* afterwards invokes its handler.
C16_DestroyedHolderSilent ==
    \A h \in ss.dropped :
        /\ \A r \in Readers : Count(rd[r].log, h) = 0
        /\ (ss.pc = "idle" /\ CallReturned) =>
               ~Present(m_left, h) /\ ~Present(m_right, h)

\* a holder was destroyed while its subscription had its record in the
\* table (its destructor made the only unsubscribe call), and a later publish of the subscription's type has walked its
\* whole chain while another subscription was delivered to
C16_Witness ==
    \E x \in Holders, r \in Readers :
        /\ Destroyed(x)
        /\ ss.obj[x].from \in ss.dropped
        /\ nunsub = 1
        /\ Walked(r)
        /\ InChain(TypeOf(ss.obj[x].from), rd[r].E)
        /\ Len(rd[r].log) > 0

\* assign or move-assignment is releasing the subscription of its object
Releasing == ss.pc \in {"assign_subscribe", "move_assign"} /\ ~CallReturned

\* C17: assign and move-assignment first release the subscription the
\* holder manages and only then take the new one, and both return: once the
\* unsubscribe call they make has returned the old record is in neither copy
\* and its handler is not invoked again; a holder that has taken a
\* subscription this way holds the cookie of that subscription, whose
\* record is in both copies while no call is running and whose handler
\* every publish of a type of its chain invokes.
C17_AssignReleasesThenTakes ==
    /\ ss.pc # "undefined"
    /\ \A h \in ss.let_go :
          /\ \A r \in Readers : Count(rd[r].log, h) = 0
          /\ ~Releasing => ~Present(m_left, h) /\ ~Present(m_right, h)
    /\ \A x \in Holders : ss.obj[x].taken =>
          /\ ss.obj[x].m_ebus
          /\ ss.obj[x].from # 0
          /\ ss.obj[x].m_cookie = cookieOf[ss.obj[x].from]
          /\ CallReturned =>
                Present(m_left, ss.obj[x].from) /\ Present(m_right, ss.obj[x].from)
          /\ \A r \in Readers :
                (Walked(r) /\ InChain(TypeOf(ss.obj[x].from), rd[r].E)) =>
                    Count(rd[r].log, ss.obj[x].from) = 1

\* C18: a scoped_subscription that was default-constructed or moved from
\* (and not assigned to since) manages nothing: a step that is its reset()
\* or its destructor makes no unsubscribe call, starts no modify and
\* leaves both copies of the table and the registries as they are.
C18_EmptyHolderInert ==
    [][\A x \in Holders :
          (ss.obj[x].empty /\ (S_reset(x) \/ S_destroy(x))) =>
              UNCHANGED << shared, wr, ghost >>]_vars

\* a holder that was moved from has been destroyed, no unsubscribe call
\* was made, and the holder it was moved to still has its subscription's
\* record in both copies
C18_Witness ==
    \E x, y \in Holders :
        /\ ss.obj[x].state = "gone"
        /\ ss.obj[x].empty
        /\ ss.obj[x].from # 0
        /\ ss.obj[y].state = "alive"
        /\ ss.obj[y].m_ebus
        /\ ss.obj[y].from = ss.obj[x].from
        /\ Present(m_left, ss.obj[y].from) /\ Present(m_right, ss.obj[y].from)
        /\ nunsub = 0
        /\ CallReturned

\* the copy the active flag m_leftright names
ActiveCopy == Copy(SideOf(m_leftright))

\* the writer inside modify holds m_writemutex
WriterInProgress(w) == m_writemutex = w

\* C19 as stated: in every reachable state either no writer is in progress
\* and the left and the right copy are equal, or a writer is in progress
\* and the copy the active flag names equals the table as it was before
\* that write began.
C19_ActiveCopyIsPreWrite ==
    \/ /\ m_writemutex = "unlocked"
       /\ m_left = m_right
    \/ \E w \in Writers :
          /\ WriterInProgress(w)
          /\ ActiveCopy = wr[w].before

\* modify has stored m_leftright: readers are sent to the copy it wrote first
Flipped(w) == wr[w].pc \in {"wait_next", "store_index", "wait_current", "f2"}

\* C19 amended: in every reachable state either no writer is in progress
\* and the left and the right copy are equal, or a writer is in progress
\* and the copy the active flag names equals the table as it was before
\* that write began until modify stores m_leftright, and that table with
\* the writer's functor applied from then on.
C19_ActiveCopyIsPreOrPostWrite ==
    \/ /\ m_writemutex = "unlocked"
       /\ m_left = m_right
    \/ \E w \in Writers :
          /\ WriterInProgress(w)
          /\ ActiveCopy = IF Flipped(w) THEN Functor(w, wr[w].before)
                                        ELSE wr[w].before

\* an unsubscribe that erases a record has stored m_leftright while a
\* publish reads: the active copy is the table without the record, and the
\* other copy still holds it
C19_Witness ==
    \E w \in Writers, r \in Readers :
        /\ WriterInProgress(w)
        /\ wr[w].pc = "wait_next"
        /\ wr[w].op = "unsubscribe"
        /\ ActiveCopy # wr[w].before
        /\ Copy(Other(SideOf(m_leftright))) = wr[w].before
        /\ rd[r].pc = "deliver"

\* the records table subs holds under key T
RecordsUnder(subs, T) == {subs[i] : i \in {j \in 1..Len(subs) : subs[j].ti = T}}

\* C20: whenever no modify is in progress, from construction on and after
\* each modify has returned, the left and the right copy hold the same
\* number of records and, under every key, the same set of handler records,
\* whatever subscribe and unsubscribe calls were made.
C20_CopiesAgreeAfterModify ==
    NoWriter =>
        /\ Len(m_left) = Len(m_right)
        /\ \A T \in EventTypes \cup AdaptedTypes :
              RecordsUnder(m_left, T) = RecordsUnder(m_right, T)

\* every subscribe and unsubscribe call the bounds allow has returned, and
\* both copies hold a record
C20_Witness ==
    /\ NoWriter
    /\ Len(cookieOf) = MaxSubs
    /\ nunsub = MaxUnsubs
    /\ returned = Handlers
    /\ m_left # << >>
    /\ m_right # << >>

\* empty() has just returned true to writer w: modify has left one of the
\* wait loops of toggle_reader_registry
ReturnedEmpty(w) == wr[w].pc \in {"store_index", "f2"}

CountedIn(reg, k) == {r \in Inside(reg) : ShardOf(r) = k}

\* C22: each observe departs the registry instance it arrived at, whatever
\* m_registry_index has become meanwhile.  In every state every counter of
\* both registries is the number of observes, nested ones included, that
\* have arrived at it and not departed: it is never below zero, and it is
\* zero once every observe has exited.
C22_RegistrySound ==
    \A reg \in {0, 1}, k \in Shards :
        m_reader_registries[reg][k] = Cardinality(CountedIn(reg, k))

\* a handler invoked by r1 has published and that nested observe has
\* exited; a modify has changed m_registry_index since r1 arrived, and r1
\* is about to depart the registry it arrived at
C22_Witness ==
    /\ rd["r1"].pc = "depart"
    /\ rd["r2"].pc = "idle"
    /\ npub = 2
    /\ nested = "publish"
    /\ m_registry_index # rd["r1"].idx
    /\ m_reader_registries[rd["r1"].idx][ShardOf("r1")] = 1

\* the keys the publish of reader r has looked the table up under so far
LookedUp(r) == {ChainTable[rd[r].E][i] : i \in 1..(rd[r].pos - 1)}

\* C23 as stated: when a value of a class type E that declares no dispatch
\* chain is published, the effective chain is [E] alone, and the table is
\* looked up under the type identifier of E and under no other key.
C23_PlainChainIsSelf ==
    \A r \in Readers :
        (Walked(r) /\ rd[r].E \in OrdinaryTypes) =>
            /\ ChainTable[rd[r].E] = << rd[r].E >>
            /\ LookedUp(r) = {rd[r].E}

\* C23 amended: when a value of a class type E that does not derive from
\* the event root is published, it is published as adapted_event<E> and the
\* effective chain is [adapted_event<E>, E]: the table is looked up under
\* the type identifier of adapted_event<E> and then under that of E, under
\* no other key, and every handler invoked was subscribed for E.
C23_PlainChainIsAdaptedThenSelf ==
    \A r \in Readers :
        (Walked(r) /\ rd[r].E \in OrdinaryTypes) =>
            /\ ChainTable[rd[r].E] = << adapted_event(rd[r].E), rd[r].E >>
            /\ LookedUp(r) = {adapted_event(rd[r].E), rd[r].E}
            /\ \A i \in 1..Len(rd[r].log) : TypeOf(rd[r].log[i]) = rd[r].E

\* a publish of a non_polymorphic_event has walked its chain of two keys
\* and invoked the handler subscribed for non_polymorphic_event
C23_Witness ==
    \E r \in Readers, h \in live :
        /\ Walked(r)
        /\ rd[r].E = "non_polymorphic_event"
        /\ TypeOf(h) = rd[r].E
        /\ rd[r].pos = 3
        /\ rd[r].log = << h >>

\* how often type T occurs in a chain
Occurrences(chain, T) == Cardinality({i \in 1..Len(chain) : chain[i] = T})

\* C24: for every published type E and every declared dispatch_as list the
\* effective chain has E at its head and contains E exactly once, so that
\* no handler subscribed for E is invoked twice by one publish.  (The type
\* published for a class that does not derive from the event root is its
\* adapted_event.)
C24_SelfOnceInChain ==
    \A r \in Readers :
        rd[r].pc # "idle" =>
            /\ Head(ChainOf(rd[r].E)) = PublishedAs(rd[r].E)
            /\ Occurrences(ChainOf(rd[r].E), PublishedAs(rd[r].E)) = 1
            /\ \A h \in Handlers :
                  TypeOf(h) = rd[r].E => Count(rd[r].log, h) <= 1

\* the steps of a modify that writes copy side first and finds the registry
\* index at current, in order, up to the second application of f
ModifyOrder(side, current) ==
    << Did("f", side), Did("store_leftright", ReadOf(side)),
       Did("empty", 1 - current), Did("store_index", 1 - current),
       Did("empty", current) >>

\* what writer w has done is the beginning of the order of modify, for the
\* copy that was inactive and the index that was current when it began
InOrder(w) ==
    LET n == Len(wr[w].steps)
        side == IF n < 2 THEN Other(SideOf(m_leftright)) ELSE SideOf(m_leftright)
        current == IF n < 4 THEN m_registry_index ELSE 1 - m_registry_index
    IN  /\ n <= 5
        /\ wr[w].steps = SubSeq(ModifyOrder(side, current), 1, n)
        /\ n > 0 => m_writemutex = w

\* a copy is written in this step
Written(side) == IF side = "left" THEN m_left' # m_left ELSE m_right' # m_right

\* C25: inside every modify the steps happen in this order: f on the
\* inactive copy, the store of the active flag to that copy, registries[1 -
\* current] seen empty, the store of the registry index to 1 - current,
\* registries[current] seen empty, and only then f on the previously active
\* copy.  The copy readers are sent to is never written, and the other one
\* is written only before any of these steps or after all of them.
C25_ModifyOrder ==
    /\ [](\A w \in Writers : InOrder(w))
    /\ [][/\ ~Written(SideOf(m_leftright))
          /\ Written(Other(SideOf(m_leftright))) =>
                \E w \in Writers :
                    /\ m_writemutex = w
                    /\ \/ wr[w].steps = << >>
                       \/ wr[w].steps = ModifyOrder(SideOf(m_leftright),
                                                    1 - m_registry_index)]_vars

\* a subscribe has done the five steps and is about to apply f to the copy
\* that was active when it began, while a publish that arrived meanwhile
\* reads the other copy
C25_Witness ==
    \E w \in Writers, r \in Readers :
        /\ wr[w].pc = "f2"
        /\ wr[w].op = "subscribe"
        /\ Len(wr[w].steps) = 5
        /\ rd[r].pc = "deliver"
        /\ rd[r].side = SideOf(m_leftright)
        /\ m_left # m_right

\* writer w is in toggle_reader_registry
Toggling(w) == wr[w].pc \in {"wait_next", "store_index", "wait_current"}

\* C26: at most one thread is inside the body of modify at any time.  A
\* writer is between its first application of f and the end of its second
\* exactly while it holds m_writemutex, so no two writers are, and the
\* registry toggle runs only with the mutex held.
C26_WritersSerialized ==
    /\ \A w, u \in Writers : (Modifying(w) /\ Modifying(u)) => w = u
    /\ \A w \in Writers : Modifying(w) <=> m_writemutex = w
    /\ \A w \in Writers : Toggling(w) => m_writemutex = w

\* a subscribe is in the registry toggle, between its two writes, while an
\* unsubscribe of the other writer waits for the mutex
C26_Witness ==
    \E w, u \in Writers :
        /\ w # u
        /\ Toggling(w)
        /\ wr[w].op = "subscribe"
        /\ m_left # m_right
        /\ wr[u].pc = "lock"
        /\ wr[u].op = "unsubscribe"

\* the identities of the records of a table are pairwise distinct
DistinctIds(subs) ==
    \A i, j \in 1..Len(subs) : subs[i].id = subs[j].id => i = j

\* C27: subscriber identities are unique among live records.  In every
\* reachable state no two records of a copy of the table have the same
\* identity, whatever their keys, and the cookies of two subscriptions that
\* are both still subscribed are not equal, also when both are for the same
\* type; the record of each has the identity and the key of its cookie.
C27_UniqueIdentities ==
    /\ DistinctIds(m_left)
    /\ DistinctIds(m_right)
    /\ \A h, g \in live : h # g => cookieOf[h] # cookieOf[g]
    /\ \A h \in live : m_writemutex = "unlocked" =>
          \E i \in 1..Len(m_left) : m_left[i] = [ti |-> cookieOf[h].ti,
                                                  id |-> cookieOf[h].id, h |-> h]

\* two subscriptions for the same type are both subscribed, with their
\* records in both copies, after an earlier unsubscribe call
C27_Witness ==
    \E h, g \in live :
        /\ h # g
        /\ TypeOf(h) = TypeOf(g)
        /\ Present(m_left, h) /\ Present(m_left, g)
        /\ Present(m_right, h) /\ Present(m_right, g)
        /\ cookieOf[h].id # cookieOf[g].id
        /\ nunsub > 0

\* C28: the memory orderings of the code suffice for safety.  With arrive
\* and depart release-only, the reader's load of the active flag acquire,
\* the writer's store of it release and empty() an acquire load, the
\* writer's second application of f never overlaps a reader that is still
\* inside its functor on that copy, and the copy a reader is inside is not
\* written since it entered.
C28_OrderingsSuffice ==
    \A r \in Readers, w \in Writers :
        (rd[r].pc = "deliver" /\ wr[w].pc = "f2") =>
            /\ Other(wr[w].first) # rd[r].side
            /\ Copy(rd[r].side) = rd[r].view

\* the delivered value of a publish of an E can be viewed as a T: the
\* dynamic_cast of the published object to T yields a pointer
Viewable(T, E) == T \in BasesOf(PublishedAs(E))

\* C29: a record with dynamic-dispatch erasure, that is one subscribed for
\* a type that does not derive from the event root, invokes its handler iff
\* the delivered value can be viewed as the subscribed type.  Otherwise the
\* handler is skipped and delivery goes on: when the publish returns every
\* other subscribed handler has been invoked once for each time its type is
\* in the chain.
C29_DynamicCastSkip ==
    \A r \in Readers :
        /\ \A i \in 1..Len(rd[r].log) :
              is_base_of_event(TypeOf(rd[r].log[i]))
                  \/ Viewable(TypeOf(rd[r].log[i]), rd[r].E)
        /\ Walked(r) =>
              \A h \in live :
                  Count(rd[r].log, h) =
                      IF is_base_of_event(TypeOf(h)) \/ Viewable(TypeOf(h), rd[r].E)
                      THEN Occurrences(ChainOf(rd[r].E), TypeOf(h))
                      ELSE 0

\* a publish of a foreign_event, whose chain names my_object before
\* base_event, has met the record of a my_object handler, skipped it, and
\* invoked the base_event handler after it
C29_Witness ==
    \E r \in Readers, h, g \in live :
        /\ Walked(r)
        /\ rd[r].E = "foreign_event"
        /\ TypeOf(h) = "my_object"
        /\ InChain("my_object", rd[r].E)
        /\ ~Viewable("my_object", rd[r].E)
        /\ TypeOf(g) = "base_event"
        /\ rd[r].log = << g >>

\* C30: no double delivery under concurrency.  A publish loads the active
\* flag once and walks the copy it names: every handler it has invoked has
\* its record in the table that copy held when the publish entered it, and
\* is invoked at most once per element of the chain that is its key,
\* whatever subscribe and unsubscribe calls run and switch the active copy
\* meanwhile.
C30_NoDoubleDelivery ==
    \A r \in Readers :
        rd[r].pc \in {"deliver", "depart"} =>
            \A h \in Handlers :
                /\ Count(rd[r].log, h) <= Occurrences(ChainTable[rd[r].E], TypeOf(h))
                /\ Count(rd[r].log, h) > 0 => Present(rd[r].view, h)

\* a publish of derived_event is in the middle of its chain and has invoked
\* a handler once, while the unsubscribe of that handler has switched the
\* active copy away from the one the publish walks
C30_Witness ==
    \E r \in Readers, w \in Writers, h \in Handlers :
        /\ rd[r].pc = "deliver"
        /\ rd[r].E = "derived_event"
        /\ rd[r].pos = 2
        /\ rd[r].log = << h >>
        /\ Flipped(w)
        /\ wr[w].op = "unsubscribe"
        /\ wr[w].c = cookieOf[h]
        /\ rd[r].side # SideOf(m_leftright)
        /\ ~Present(ActiveCopy, h)

\* reader r is inside the functor of its publish or has just left it: it
\* has picked a copy and has not departed
Reading(r) == rd[r].pc \in {"deliver", "depart"}

\* C31: unsubscribe waits for the publishes that can reach the record.
\* (a) when modify is about to erase the record of c from the second copy
\* (the one readers were sent to as the call began), no publish is on that
\* copy any more; (b) every handler a publish under way has
\* invoked still has its record in some copy, so no record is invoked once
\* it is removed from both and its storage released; (c) once an
\* unsubscribe given the cookie of h has returned, the record of h is in
\* neither copy, so no later publish finds it.
C31_UnsubscribeWaitsForPublishes ==
    /\ \A w \in Writers :
          (/\ wr[w].pc = "f2"
           /\ wr[w].op = "unsubscribe"
           /\ Functor(w, Copy(Other(wr[w].first))) # Copy(Other(wr[w].first))) =>
              \A r \in Readers : Reading(r) => rd[r].side # Other(wr[w].first)
    /\ \A r \in Readers :
          Reading(r) =>
              \A i \in 1..Len(rd[r].log) :
                  Present(m_left, rd[r].log[i]) \/ Present(m_right, rd[r].log[i])
    /\ \A h \in returned \ live :
          ~Present(m_left, h) /\ ~Present(m_right, h)

\* unsubscribe(c) has erased the record of c from the first copy and waits
\* in toggle_reader_registry while a publish that has invoked the handler
\* of c is still on the other copy
C31_Witness ==
    \E w \in Writers, r \in Readers, h \in returned :
        /\ wr[w].op = "unsubscribe"
        /\ wr[w].from = h
        /\ wr[w].pc \in {"wait_next", "wait_current"}
        /\ ~Present(Copy(wr[w].first), h)
        /\ Reading(r)
        /\ rd[r].side = Other(wr[w].first)
        /\ Count(rd[r].log, h) = 1

\* the table the first k modify calls, in the order they took m_writemutex,
\* have produced
TableAfter(k) == order.tables[k + 1]

\* C32: readers see a single order of modifications.  Each copy holds the
\* table produced by a prefix of the modify calls in mutex order; the table
\* an observe picked is the table of the prefix it saw, and that prefix is
\* not shorter than the one any observe saw that had returned when this one
\* was entered.
C32_SingleOrder ==
    /\ \A side \in {"left", "right"} : Copy(side) = TableAfter(order.passed[side])
    /\ \A r \in Readers :
          Reading(r) =>
              /\ rd[r].view = TableAfter(order.seen[r])
              /\ order.seen[r] >= order.start[r]

\* an observe was entered after an observe that saw the table of the first
\* modify call had returned, and has picked the table of the first two
\* while the second modify call is still in toggle_reader_registry
C32_Witness ==
    \E r \in Readers, w \in Writers :
        /\ Reading(r)
        /\ order.start[r] = 1
        /\ order.seen[r] = 2
        /\ TableAfter(2) # TableAfter(1)
        /\ wr[w].pc \in {"wait_next", "store_index", "wait_current"}

\* the copy a side names, after the step
CopyAfter(side) == IF side = "left" THEN m_left' ELSE m_right'

\* table new is table old without its i-th record, the others as they were
Without(old, new, i) ==
    /\ Len(new) = Len(old) - 1
    /\ \A j \in 1..Len(new) : new[j] = IF j < i THEN old[j] ELSE old[j + 1]

\* the records of a table that cookie c names: identity c.id in the bucket
\* of c.ti
Named(subs, c) ==
    {i \in 1..Len(subs) : subs[i].id = c.id /\ subs[i].ti = c.ti}

\* the step applies the functor of writer w to the copy of side
Applies(w, side) == Writing(w) = side /\ wr'[w].pc # wr[w].pc

\* C33: frame of the table operations.  In every step, for each copy: the
\* functor of unsubscribe(c) leaves the copy as it is if no record has the
\* identity c.id in the bucket of c.ti, and else removes one such record
\* and no other; the functor of subscribe<T> adds one record, the new one
\* with key T, and changes no other; and nothing else changes the copy, so
\* no step of publish does.
C33_Frame ==
    [][\A side \in {"left", "right"} :
          LET old == Copy(side)
              new == CopyAfter(side)
          IN  /\ \A w \in Writers :
                    Applies(w, side) =>
                        IF wr[w].op = "unsubscribe"
                        THEN IF Named(old, wr[w].c) = {} THEN new = old
                             ELSE \E i \in Named(old, wr[w].c) : Without(old, new, i)
                        ELSE \E i \in 1..Len(new) :
                                /\ new[i] = wr[w].tesub
                                /\ new[i].ti = TypeOf(wr[w].tesub.h)
                                /\ Without(new, old, i)
              /\ new # old => \E w \in Writers : Applies(w, side)]_vars

\* unsubscribe was given a cookie whose identity is that of the only record
\* in the table, subscribed for another type (the address was used again):
\* its functor has run on the first copy and has removed nothing
C33_Witness ==
    \E w \in Writers :
        /\ wr[w].pc = "store_leftright"
        /\ wr[w].op = "unsubscribe"
        /\ Len(Copy(wr[w].first)) = 1
        /\ Copy(wr[w].first)[1].id = wr[w].c.id
        /\ Copy(wr[w].first)[1].ti # wr[w].c.ti
        /\ wr[w].c.ti # "nullptr_t"

\* the step is the call of unsubscribe with the cookie of subscribe call h
UnsubscribeCalled(h) ==
    \E w \in Writers :
        /\ wr[w].pc = "idle"
        /\ wr'[w].pc = "lock"
        /\ wr'[w].op = "unsubscribe"
        /\ wr'[w].from = h

\* C34: unsubscribe is called at most once for each subscription a
\* scoped_subscription has taken, whatever member functions are called on
\* the objects: no step calls unsubscribe with the cookie of a subscribe
\* call an object made when unsubscribe was called with it before.
C34_UnsubscribeOnce ==
    [][\A h \in ss.owned : UnsubscribeCalled(h) => h \notin released]_vars

====
